---- MODULE Spec2Model ----
(***************************************************************************)
(* P2Pro-Viewer: the frame source (P2Pro/video.py, class Video), its two   *)
(* capacity-1 consumer queues, the display consumer (main.py) and the      *)
(* recorder (P2Pro/recorder.py, classes VideoRecorder and AudioRecorder).  *)
(* One state machine: every thread and external process has a program     *)
(* counter, every step is one statement (or one atomic library call).      *)
(***************************************************************************)
EXTENDS Integers, Sequences, FiniteSets, TLC

(* ------------------------------ bounds --------------------------------- *)
\* number of frames the source delivers before every further read fails
MaxFrames == 2
\* number of VideoRecorder.start() calls a client makes
MaxStarts == 2
\* number of chunks the audio callback delivers
MaxChunks == 1

(* ------------------------- program constants --------------------------- *)
ResWidth == 256
ResHeight == 384
\* a queue built with room for two frames
QueueCapTwo == 1 + 1

\* frame_queue = [queue.Queue(1) for _ in range(2)]
QueueCap == 1
NumQueues == 2

\* raw buffer length of one well-formed frame, in bytes (two bytes a pixel)
FrameBytes == ResWidth * ResHeight * 2
\* raw buffer lengths a read may deliver: well-formed, short by a pixel,
\* short by a byte
RawLens == {FrameBytes, FrameBytes - 2, FrameBytes - 1}

Queues == 0 .. (NumQueues - 1)
GuiQueue == 0
RecQueue == 1
Encoders == {"rgb", "therm"}
TempFiles == {"rgb", "therm", "wav"}

VARIABLES
    \* ---- class Video
    frame_queue,     \* [Queues -> Seq(frame_num)], each of capacity QueueCap
    recording,       \* Video.recording
    video_running,   \* Video.video_running
    cap,             \* Video.cap: "none", "open", "released"
    vpc,             \* position of the thread running Video.open
    verr,            \* exception that ended Video.open ("none" when none)
    frame_counter,   \* local frame_counter of Video.open
    rawlen,          \* byte length of the buffer of the current cycle
    qi,              \* index of the publish loop over frame_queue
    published,       \* [Queues -> number of completed queue.put calls]
    vstop,           \* position of the caller inside Video.stop
    \* ---- a second Video object
    vid2,            \* its own attributes and the position of its thread
    \* ---- display consumer (main.py)
    dpc,             \* position of the main loop
    \* ---- consumers' observations
    taken,           \* [Queues -> Seq(frame_num)] frames each consumer took
    \* ---- class VideoRecorder
    with_radiometry, \* VideoRecorder.with_radiometry
    with_audio,      \* VideoRecorder.with_audio
    rec_running,     \* VideoRecorder.rec_running
    rec_thread_attr, \* what self.rec_thread names: "method" or "thread"
    startCalls,      \* number of start() calls made
    recThreads,      \* number of threading.Thread objects start() started
    deadThreads,     \* threads whose run() raised TypeError at once
    rpc,             \* position of the thread running rec_thread
    rerr,            \* exception that ended rec_thread ("none" when none)
    enc,             \* [Encoders -> record of the ffmpeg encoder process]
    written,         \* [Encoders -> Seq(frame_num)] frames written to stdin
    files,           \* temporary / output files that exist
    created,         \* files this recorder (or its encoders) ever created
    removed,         \* files the recorder's cleanup removed
    mergeInputs,     \* in_streams handed to the merge, as a sequence
    mergeResult,     \* "none", "ok", "failed"
    \* ---- class AudioRecorder
    a_recording,     \* AudioRecorder.recording
    apc,             \* position of the thread running AudioRecorder.record
    a_frames,        \* AudioRecorder.frames (chunk ids in arrival order)
    wav_data,        \* chunks written to the wave file
    wf_closed        \* the wave file has been closed

videoVars == <<frame_queue, recording, video_running, cap, vpc, verr,
               frame_counter, rawlen, qi, published, vstop>>
recVars == <<with_radiometry, with_audio, rec_running, rec_thread_attr,
             startCalls, recThreads, deadThreads, rpc, rerr,
             enc, written, files, created, removed, mergeInputs, mergeResult>>
audioVars == <<a_recording, apc, a_frames, wav_data, wf_closed>>
vars == <<videoVars, vid2, dpc, taken, recVars, audioVars>>

\* a Video object on which nothing was called yet: recording, video_running
\* and cap are the class defaults until open() assigns them on the object
NewVideo == [pc |-> "idle", recording |-> FALSE, video_running |-> FALSE,
             cap |-> "none", err |-> "none", frame_counter |-> 0, qi |-> 0]

NoEncoder == [state |-> "none", stdin |-> "none", code |-> "none", waited |-> FALSE]

Init ==
    /\ frame_queue = [q \in Queues |-> <<>>]
    /\ recording = FALSE
    /\ video_running = FALSE
    /\ cap = "none"
    /\ vpc = "idle"
    /\ verr = "none"
    /\ frame_counter = 0
    /\ rawlen = 0
    /\ qi = 0
    /\ published = [q \in Queues |-> 0]
    /\ vstop = "none"
    /\ vid2 = NewVideo
    /\ dpc = "wait_running"
    /\ taken = [q \in Queues |-> <<>>]
    /\ with_radiometry \in BOOLEAN
    /\ with_audio \in BOOLEAN
    /\ rec_running = FALSE
    /\ rec_thread_attr = "method"
    /\ startCalls = 0
    /\ recThreads = 0
    /\ deadThreads = 0
    /\ rpc = "none"
    /\ rerr = "none"
    /\ enc = [e \in Encoders |-> NoEncoder]
    /\ written = [e \in Encoders |-> <<>>]
    /\ files = {}
    /\ created = {}
    /\ removed = {}
    /\ mergeInputs = <<>>
    /\ mergeResult = "none"
    /\ a_recording = FALSE
    /\ apc = "none"
    /\ a_frames = <<>>
    /\ wav_data = <<>>
    /\ wf_closed = FALSE

(* ======================= class Video (video.py) ======================== *)

\* queue.Queue.full() / empty()
QFull(q) == Len(q) >= QueueCap
QEmpty(q) == Len(q) = 0

\* the decode of one raw buffer (video.py 247-254): split at the midpoint,
\* reshape the upper half to (H/2, W, 2) uint8 and the lower half to
\* (H/2, W) uint16; numpy raises ValueError when a length does not fit
PictureLen(n) == n \div 2
ThermalLen(n) == n - (n \div 2)
DecodeOk(n) ==
    /\ PictureLen(n) = (ResHeight \div 2) * ResWidth * 2
    /\ ThermalLen(n) % 2 = 0
    /\ ThermalLen(n) \div 2 = (ResHeight \div 2) * ResWidth

\* the increment left out
NextFrameNumStuck(n) == n

\* frame_counter += 1
NextFrameNum(n) == n + 1

\* threading.Thread(target=vid.open).start()
VideoThreadStart ==
    /\ vpc = "idle"
    /\ vpc' = "open"
    /\ UNCHANGED <<frame_queue, recording, video_running, cap, verr,
                   frame_counter, rawlen, qi, published, vstop>>
    /\ UNCHANGED <<vid2, dpc, taken, recVars, audioVars>>

\* self.recording = True
VOpenSetRecording ==
    /\ vpc = "open"
    /\ recording' = TRUE
    /\ vpc' = "opencap"
    /\ UNCHANGED <<frame_queue, video_running, cap, verr,
                   frame_counter, rawlen, qi, published, vstop>>
    /\ UNCHANGED <<vid2, dpc, taken, recVars, audioVars>>

\* camera lookup, capture creation, isOpened and resolution/FPS checks
VOpenCap ==
    /\ vpc = "opencap"
    /\ \E outcome \in {"ok", "notfound", "notopened", "mismatch"} :
         CASE outcome = "ok" ->
                /\ cap' = "open"
                /\ vpc' = "loop"
                /\ verr' = verr
           [] outcome = "notfound" ->
                /\ cap' = cap
                /\ vpc' = "crashed"
                /\ verr' = "ConnectionError"
           [] outcome = "notopened" ->
                /\ cap' = "open"
                /\ vpc' = "crashed"
                /\ verr' = "ConnectionError"
           [] outcome = "mismatch" ->
                /\ cap' = "open"
                /\ vpc' = "crashed"
                /\ verr' = "IndexError"
    /\ frame_counter' = 0
    /\ UNCHANGED <<frame_queue, recording, video_running, rawlen, qi,
                   published, vstop>>
    /\ UNCHANGED <<vid2, dpc, taken, recVars, audioVars>>

\* while self.recording:
VLoop ==
    /\ vpc = "loop"
    /\ vpc' = IF recording THEN "read" ELSE "done"
    /\ UNCHANGED <<frame_queue, recording, video_running, cap, verr,
                   frame_counter, rawlen, qi, published, vstop>>
    /\ UNCHANGED <<vid2, dpc, taken, recVars, audioVars>>

\* success, frame = self.cap.read(); if (not success): continue;
\* self.video_running = True
\* (a released capture reads nothing; the source delivers MaxFrames buffers)
VRead ==
    /\ vpc = "read"
    /\ \/ /\ vpc' = "loop"
          /\ UNCHANGED <<rawlen, video_running>>
       \/ /\ cap = "open"
          /\ frame_counter < MaxFrames
          /\ \E n \in RawLens : rawlen' = n
          /\ video_running' = TRUE
          /\ vpc' = "decode"
    /\ UNCHANGED <<frame_queue, recording, cap, verr,
                   frame_counter, qi, published, vstop>>
    /\ UNCHANGED <<vid2, dpc, taken, recVars, audioVars>>

\* split, np.frombuffer(...).reshape(...), cvtColor, frame_obj = {...};
\* the raw buffer is not used after this
VDecode ==
    /\ vpc = "decode"
    /\ IF DecodeOk(rawlen)
         THEN /\ vpc' = "pub_full"
              /\ qi' = 0
              /\ verr' = verr
         ELSE /\ vpc' = "crashed"
              /\ verr' = "ValueError"
              /\ qi' = qi
    /\ rawlen' = 0
    /\ UNCHANGED <<frame_queue, recording, video_running, cap,
                   frame_counter, published, vstop>>
    /\ UNCHANGED <<vid2, dpc, taken, recVars, audioVars>>

\* if queue.full():
VPubFull ==
    /\ vpc = "pub_full"
    /\ vpc' = IF QFull(frame_queue[qi]) THEN "pub_get" ELSE "pub_put"
    /\ UNCHANGED <<frame_queue, recording, video_running, cap, verr,
                   frame_counter, rawlen, qi, published, vstop>>
    /\ UNCHANGED <<vid2, dpc, taken, recVars, audioVars>>

\* queue.get(False): raises queue.Empty when nothing is queued
VPubGet ==
    /\ vpc = "pub_get"
    /\ IF QEmpty(frame_queue[qi])
         THEN /\ vpc' = "crashed"
              /\ verr' = "Empty"
              /\ frame_queue' = frame_queue
         ELSE /\ vpc' = "pub_put"
              /\ verr' = verr
              /\ frame_queue' = [frame_queue EXCEPT ![qi] = Tail(@)]
    /\ UNCHANGED <<recording, video_running, cap,
                   frame_counter, rawlen, qi, published, vstop>>
    /\ UNCHANGED <<vid2, dpc, taken, recVars, audioVars>>

\* queue.put(frame_obj): blocks while the queue is full; then the next
\* queue of the for loop, or frame_counter += 1 after the last one
VPubPut ==
    /\ vpc = "pub_put"
    /\ ~QFull(frame_queue[qi])
    /\ frame_queue' = [frame_queue EXCEPT ![qi] = Append(@, frame_counter)]
    /\ published' = [published EXCEPT ![qi] = @ + 1]
    /\ IF qi + 1 < NumQueues
         THEN /\ qi' = qi + 1
              /\ vpc' = "pub_full"
              /\ frame_counter' = frame_counter
         ELSE /\ qi' = qi
              /\ vpc' = "loop"
              /\ frame_counter' = NextFrameNum(frame_counter)
    /\ UNCHANGED <<recording, video_running, cap, verr, rawlen, vstop>>
    /\ UNCHANGED <<vid2, dpc, taken, recVars, audioVars>>

\* Video.stop(), first statement: self.recording = False
VStopFlag ==
    /\ vstop = "none"
    /\ recording' = FALSE
    /\ vstop' = "flagged"
    /\ UNCHANGED <<frame_queue, video_running, cap, vpc, verr,
                   frame_counter, rawlen, qi, published>>
    /\ UNCHANGED <<vid2, dpc, taken, recVars, audioVars>>

\* Video.stop(), second statement: self.cap.release()
\* (AttributeError in the caller while cap is still None)
VStopRelease ==
    /\ vstop = "flagged"
    /\ IF cap = "none"
         THEN /\ vstop' = "error"
              /\ cap' = cap
         ELSE /\ vstop' = "returned"
              /\ cap' = "released"
    /\ UNCHANGED <<frame_queue, recording, video_running, vpc, verr,
                   frame_counter, rawlen, qi, published>>
    /\ UNCHANGED <<vid2, dpc, taken, recVars, audioVars>>

\* the steps of the thread running Video.open
VideoThreadNext ==
    \/ VOpenSetRecording
    \/ VOpenCap
    \/ VLoop
    \/ VRead
    \/ VDecode
    \/ VPubFull
    \/ VPubGet
    \/ VPubPut

(* ================= a second Video object (video.py) ==================== *)
\* frame_queue is assigned in the class body (video.py 124) and never on an
\* object, so Video().frame_queue is the same list of queues for every
\* object; recording, video_running and cap become attributes of the object
\* at their first assignment through self.

\* the frame object a second Video builds for its n-th frame; negative so
\* that it can be told from a frame of the first (frame_num itself is n)
OtherFrame(n) == 0 - (n + 1)
FromOther(f) == f < 0

\* the steps of open() on the second object that touch nothing shared
Vid2Local == UNCHANGED <<videoVars, dpc, taken, recVars, audioVars>>

\* threading.Thread(target=vid2.open).start()
Video2ThreadStart ==
    /\ vid2.pc = "idle"
    /\ vid2' = [vid2 EXCEPT !.pc = "open"]
    /\ Vid2Local

\* self.recording = True; camera lookup, capture creation and checks;
\* frame_counter = 0
V2Open ==
    /\ vid2.pc = "open"
    /\ \E outcome \in {"ok", "notfound", "notopened", "mismatch"} :
         vid2' = [vid2 EXCEPT
                    !.recording = TRUE,
                    !.frame_counter = 0,
                    !.cap = IF outcome = "notfound" THEN @ ELSE "open",
                    !.pc = IF outcome = "ok" THEN "loop" ELSE "crashed",
                    !.err = CASE outcome = "ok" -> @
                              [] outcome = "mismatch" -> "IndexError"
                              [] OTHER -> "ConnectionError"]
    /\ Vid2Local

\* while self.recording:
V2Loop ==
    /\ vid2.pc = "loop"
    /\ vid2' = [vid2 EXCEPT !.pc = IF vid2.recording THEN "read" ELSE "done"]
    /\ Vid2Local

\* cap.read(); if (not success): continue; self.video_running = True; the
\* decode of the buffer and frame_obj = {...}
V2Read ==
    /\ vid2.pc = "read"
    /\ \/ vid2' = [vid2 EXCEPT !.pc = "loop"]
       \/ /\ vid2.frame_counter < MaxFrames
          /\ \E n \in RawLens :
               vid2' = [vid2 EXCEPT
                          !.video_running = TRUE,
                          !.qi = IF DecodeOk(n) THEN 0 ELSE @,
                          !.pc = IF DecodeOk(n) THEN "pub_full" ELSE "crashed",
                          !.err = IF DecodeOk(n) THEN @ ELSE "ValueError"]
    /\ Vid2Local

\* if queue.full():
V2PubFull ==
    /\ vid2.pc = "pub_full"
    /\ vid2' = [vid2 EXCEPT !.pc = IF QFull(frame_queue[vid2.qi])
                                     THEN "pub_get" ELSE "pub_put"]
    /\ Vid2Local

\* queue.get(False): raises queue.Empty when nothing is queued
V2PubGet ==
    /\ vid2.pc = "pub_get"
    /\ IF QEmpty(frame_queue[vid2.qi])
         THEN /\ vid2' = [vid2 EXCEPT !.pc = "crashed", !.err = "Empty"]
              /\ frame_queue' = frame_queue
         ELSE /\ vid2' = [vid2 EXCEPT !.pc = "pub_put"]
              /\ frame_queue' = [frame_queue EXCEPT ![vid2.qi] = Tail(@)]
    /\ UNCHANGED <<recording, video_running, cap, vpc, verr,
                   frame_counter, rawlen, qi, published, vstop>>
    /\ UNCHANGED <<dpc, taken, recVars, audioVars>>

\* queue.put(frame_obj): blocks while the queue is full; then the next
\* queue of the for loop, or frame_counter += 1 after the last one
V2PubPut ==
    /\ vid2.pc = "pub_put"
    /\ ~QFull(frame_queue[vid2.qi])
    /\ frame_queue' = [frame_queue EXCEPT
                         ![vid2.qi] = Append(@, OtherFrame(vid2.frame_counter))]
    /\ vid2' = IF vid2.qi + 1 < NumQueues
                 THEN [vid2 EXCEPT !.qi = @ + 1, !.pc = "pub_full"]
                 ELSE [vid2 EXCEPT !.pc = "loop",
                                   !.frame_counter = NextFrameNum(@)]
    /\ UNCHANGED <<recording, video_running, cap, vpc, verr,
                   frame_counter, rawlen, qi, published, vstop>>
    /\ UNCHANGED <<dpc, taken, recVars, audioVars>>

\* the steps of the thread running open() on the second object
Video2ThreadNext ==
    \/ V2Open
    \/ V2Loop
    \/ V2Read
    \/ V2PubFull
    \/ V2PubGet
    \/ V2PubPut

(* ===================== display consumer (main.py) ====================== *)

\* while not vid.video_running: time.sleep(0.01)
DWaitRunning ==
    /\ dpc = "wait_running"
    /\ video_running
    /\ dpc' = "loop"
    /\ UNCHANGED <<videoVars, vid2, taken, recVars, audioVars>>

\* img = vid.frame_queue[0].get(True, 2): a frame, or queue.Empty after the
\* timeout, which nothing in main.py catches
DTake ==
    /\ dpc = "loop"
    /\ IF QEmpty(frame_queue[GuiQueue])
         THEN /\ dpc' = "dead"
              /\ UNCHANGED <<frame_queue, taken>>
         ELSE /\ dpc' = dpc
              /\ taken' = [taken EXCEPT ![GuiQueue] =
                              Append(@, Head(frame_queue[GuiQueue]))]
              /\ frame_queue' = [frame_queue EXCEPT ![GuiQueue] = Tail(@)]
    /\ UNCHANGED <<recording, video_running, cap, vpc, verr,
                   frame_counter, rawlen, qi, published, vstop>>
    /\ UNCHANGED <<vid2, recVars, audioVars>>

(* ================= class AudioRecorder (recorder.py) =================== *)

\* AudioRecorder.record, the callback of the open sd.InputStream:
\* self.frames.append(indata.copy())
ACallback ==
    /\ apc = "running"
    /\ Len(a_frames) < MaxChunks
    /\ a_frames' = Append(a_frames, Len(a_frames) + 1)
    /\ UNCHANGED <<a_recording, apc, wav_data, wf_closed>>
    /\ UNCHANGED <<videoVars, vid2, dpc, taken, recVars>>

\* AudioRecorder.record: while self.recording: sd.sleep(100); leaving the
\* with block closes the input stream and the thread ends
ALoopExit ==
    /\ apc = "running"
    /\ ~a_recording
    /\ apc' = "exited"
    /\ UNCHANGED <<a_recording, a_frames, wav_data, wf_closed>>
    /\ UNCHANGED <<videoVars, vid2, dpc, taken, recVars>>

AudioNext == ACallback \/ ALoopExit

(* ================= the ffmpeg encoder processes ======================== *)

\* the output file of an encoder (.output(self.path + '.rgb.mkv') ...)
OutFile(e) == e

\* an encoder whose input was closed flushes and exits, with status 0 and
\* its file written, or abnormally with or without a file
EncExit(e) ==
    /\ enc[e].state = "running"
    /\ enc[e].stdin = "closed"
    /\ \E code \in {"ok", "err"}, wrote \in BOOLEAN :
         /\ (code = "ok") => wrote
         /\ enc' = [enc EXCEPT ![e].state = "exited", ![e].code = code]
         /\ files' = IF wrote THEN files \cup {OutFile(e)} ELSE files
         /\ created' = IF wrote THEN created \cup {OutFile(e)} ELSE created
    /\ UNCHANGED <<with_radiometry, with_audio, rec_running, rec_thread_attr,
                   startCalls, recThreads, deadThreads, rpc, rerr,
                   written, removed, mergeInputs, mergeResult>>
    /\ UNCHANGED <<videoVars, vid2, dpc, taken, audioVars>>

\* an encoder exits abnormally while its input is still open
EncCrash(e) ==
    /\ enc[e].state = "running"
    /\ enc[e].stdin = "open"
    /\ \E wrote \in BOOLEAN :
         /\ enc' = [enc EXCEPT ![e].state = "exited", ![e].code = "err"]
         /\ files' = IF wrote THEN files \cup {OutFile(e)} ELSE files
         /\ created' = IF wrote THEN created \cup {OutFile(e)} ELSE created
    /\ UNCHANGED <<with_radiometry, with_audio, rec_running, rec_thread_attr,
                   startCalls, recThreads, deadThreads, rpc, rerr,
                   written, removed, mergeInputs, mergeResult>>
    /\ UNCHANGED <<videoVars, vid2, dpc, taken, audioVars>>

(* ================= class VideoRecorder (recorder.py) =================== *)

recOther == <<with_radiometry, with_audio>>

\* control flow of rec_thread between its statements
AfterStartRgb == IF with_radiometry THEN "start_therm"
                 ELSE IF with_audio THEN "start_audio" ELSE "loop"
AfterStartTherm == IF with_audio THEN "start_audio" ELSE "loop"
\* mutants of the control flow: a shutdown step skipped
AfterFeedLoopNoAudioStop == "rgb_close"
AfterMergeFailureGoesOn == "rm_rgb"
AfterRmRgbNoTherm == IF with_audio THEN "rm_wav" ELSE "done"
\* the thermal write of an iteration skipped
AfterWriteRgbNoTherm == "loop"

AfterFeedLoop == IF with_audio THEN "audio_stop" ELSE "rgb_close"
AfterWriteRgb == IF with_radiometry THEN "write_therm" ELSE "loop"
AfterRgbWait == IF with_radiometry THEN "therm_close" ELSE "merge"
AfterMergeFailure == "crashed"
AfterRmRgb == IF with_radiometry THEN "rm_therm"
              ELSE IF with_audio THEN "rm_wav" ELSE "done"
AfterRmTherm == IF with_audio THEN "rm_wav" ELSE "done"

\* in_streams of the merge
InStreams ==
    <<"rgb">> \o (IF with_radiometry THEN <<"therm">> ELSE <<>>)
              \o (IF with_audio THEN <<"wav">> ELSE <<>>)

SeqRange(s) == {s[i] : i \in 1 .. Len(s)}

\* VideoRecorder.start(): rec_running = True, then a Thread whose target is
\* whatever self.rec_thread names: the method on the first call, the Thread
\* object stored by the first call afterwards (calling it raises TypeError
\* in the new thread)
RecStart ==
    /\ startCalls < MaxStarts
    /\ startCalls' = startCalls + 1
    /\ rec_running' = TRUE
    /\ recThreads' = recThreads + 1
    /\ IF rec_thread_attr = "method"
         THEN /\ rpc' = "wait"
              /\ deadThreads' = deadThreads
         ELSE /\ rpc' = rpc
              /\ deadThreads' = deadThreads + 1
    /\ rec_thread_attr' = "thread"
    /\ UNCHANGED <<recOther, rerr, enc, written, files, created,
                   removed, mergeInputs, mergeResult>>
    /\ UNCHANGED <<videoVars, vid2, dpc, taken, audioVars>>

\* VideoRecorder.stop(): rec_running = False, and it returns
RecStop ==
    /\ rec_running' = FALSE
    /\ UNCHANGED <<recOther, rec_thread_attr, startCalls, recThreads,
                   deadThreads, rpc, rerr, enc, written, files, created,
                   removed, mergeInputs, mergeResult>>
    /\ UNCHANGED <<videoVars, vid2, dpc, taken, audioVars>>

\* while self.input_queue.empty(): time.sleep(0.01)
RWait ==
    /\ rpc = "wait"
    /\ ~QEmpty(frame_queue[RecQueue])
    /\ rpc' = "peek"
    /\ UNCHANGED <<recOther, rec_running, rec_thread_attr, startCalls,
                   recThreads, deadThreads, rerr, enc, written,
                   files, created, removed, mergeInputs, mergeResult>>
    /\ UNCHANGED <<videoVars, vid2, dpc, taken, audioVars>>

\* frame = self.input_queue.queue[0] (IndexError on an empty deque), and
\* the two resolutions read from it
RPeek ==
    /\ rpc = "peek"
    /\ IF QEmpty(frame_queue[RecQueue])
         THEN /\ rpc' = "crashed"
              /\ rerr' = "IndexError"
         ELSE /\ rpc' = "start_rgb"
              /\ rerr' = rerr
    /\ UNCHANGED <<recOther, rec_running, rec_thread_attr, startCalls,
                   recThreads, deadThreads, enc, written,
                   files, created, removed, mergeInputs, mergeResult>>
    /\ UNCHANGED <<videoVars, vid2, dpc, taken, audioVars>>

Spawned == [state |-> "running", stdin |-> "open", code |-> "none", waited |-> FALSE]

\* proc_rgb = ffmpeg.input('pipe:', ...).output(path + '.rgb.mkv') ... run_async
RStartRgb ==
    /\ rpc = "start_rgb"
    /\ enc' = [enc EXCEPT !["rgb"] = Spawned]
    /\ rpc' = AfterStartRgb
    /\ UNCHANGED <<recOther, rec_running, rec_thread_attr, startCalls,
                   recThreads, deadThreads, rerr, written,
                   files, created, removed, mergeInputs, mergeResult>>
    /\ UNCHANGED <<videoVars, vid2, dpc, taken, audioVars>>

\* if self.with_radiometry: proc_therm = ... run_async
RStartTherm ==
    /\ rpc = "start_therm"
    /\ enc' = [enc EXCEPT !["therm"] = Spawned]
    /\ rpc' = AfterStartTherm
    /\ UNCHANGED <<recOther, rec_running, rec_thread_attr, startCalls,
                   recThreads, deadThreads, rerr, written,
                   files, created, removed, mergeInputs, mergeResult>>
    /\ UNCHANGED <<videoVars, vid2, dpc, taken, audioVars>>

\* if self.with_audio: proc_audio = AudioRecorder(self.path) (wave.open
\* creates the .wav file); proc_audio.start() (recording = True, thread)
RStartAudio ==
    /\ rpc = "start_audio"
    /\ files' = files \cup {"wav"}
    /\ created' = created \cup {"wav"}
    /\ a_recording' = TRUE
    /\ apc' = "running"
    /\ rpc' = "loop"
    /\ UNCHANGED <<recOther, rec_running, rec_thread_attr, startCalls,
                   recThreads, deadThreads, rerr, enc, written,
                   removed, mergeInputs, mergeResult>>
    /\ UNCHANGED <<a_frames, wav_data, wf_closed>>
    /\ UNCHANGED <<videoVars, vid2, dpc, taken>>

\* while self.rec_running:
RLoop ==
    /\ rpc = "loop"
    /\ rpc' = IF rec_running THEN "get" ELSE AfterFeedLoop
    /\ UNCHANGED <<recOther, rec_running, rec_thread_attr, startCalls,
                   recThreads, deadThreads, rerr, enc, written,
                   files, created, removed, mergeInputs, mergeResult>>
    /\ UNCHANGED <<videoVars, vid2, dpc, taken, audioVars>>

\* frame = self.input_queue.get(True, 0.1); except queue.Empty: continue
RGet ==
    /\ rpc = "get"
    /\ IF QEmpty(frame_queue[RecQueue])
         THEN /\ rpc' = "loop"
              /\ UNCHANGED <<taken, frame_queue>>
         ELSE /\ rpc' = "write_rgb"
              /\ taken' = [taken EXCEPT ![RecQueue] =
                              Append(@, Head(frame_queue[RecQueue]))]
              /\ frame_queue' = [frame_queue EXCEPT ![RecQueue] = Tail(@)]
    /\ UNCHANGED <<recOther, rec_running, rec_thread_attr, startCalls,
                   recThreads, deadThreads, rerr, enc, written,
                   files, created, removed, mergeInputs, mergeResult>>
    /\ UNCHANGED <<recording, video_running, cap, vpc, verr,
                   frame_counter, rawlen, qi, published, vstop>>
    /\ UNCHANGED <<vid2, dpc, audioVars>>

\* the frame the feed loop holds: the one it took last
CurFrame == taken[RecQueue][Len(taken[RecQueue])]

\* proc.stdin.write(...): BrokenPipeError once the process has exited
RWrite(e, next) ==
    /\ IF enc[e].state = "running"
         THEN /\ written' = [written EXCEPT ![e] = Append(@, CurFrame)]
              /\ rpc' = next
              /\ rerr' = rerr
         ELSE /\ written' = written
              /\ rpc' = "crashed"
              /\ rerr' = "BrokenPipeError"
    /\ UNCHANGED <<recOther, rec_running, rec_thread_attr, startCalls,
                   recThreads, deadThreads, enc,
                   files, created, removed, mergeInputs, mergeResult>>
    /\ UNCHANGED <<videoVars, vid2, dpc, taken, audioVars>>

\* proc_rgb.stdin.write(frame['rgb_data'] ...)
RWriteRgb ==
    /\ rpc = "write_rgb"
    /\ RWrite("rgb", AfterWriteRgb)

\* if self.with_radiometry: proc_therm.stdin.write(frame['thermal_data'] ...)
RWriteTherm ==
    /\ rpc = "write_therm"
    /\ RWrite("therm", "loop")

\* proc_audio.stop(), first statement: self.recording = False
RAudioStop ==
    /\ rpc = "audio_stop"
    /\ a_recording' = FALSE
    /\ rpc' = "audio_join"
    /\ UNCHANGED <<recOther, rec_running, rec_thread_attr, startCalls,
                   recThreads, deadThreads, rerr, enc, written,
                   files, created, removed, mergeInputs, mergeResult>>
    /\ UNCHANGED <<apc, a_frames, wav_data, wf_closed>>
    /\ UNCHANGED <<videoVars, vid2, dpc, taken>>

\* the join left out: stop() goes on to the write while the capture thread
\* may still be running
RAudioJoinNoWait ==
    /\ rpc = "audio_join"
    /\ rpc' = "audio_write"
    /\ UNCHANGED <<recOther, rec_running, rec_thread_attr, startCalls,
                   recThreads, deadThreads, rerr, enc, written,
                   files, created, removed, mergeInputs, mergeResult>>
    /\ UNCHANGED <<videoVars, vid2, dpc, taken, audioVars>>

\* proc_audio.stop(): self.thread.join()
RAudioJoin ==
    /\ rpc = "audio_join"
    /\ apc = "exited"
    /\ rpc' = "audio_write"
    /\ UNCHANGED <<recOther, rec_running, rec_thread_attr, startCalls,
                   recThreads, deadThreads, rerr, enc, written,
                   files, created, removed, mergeInputs, mergeResult>>
    /\ UNCHANGED <<videoVars, vid2, dpc, taken, audioVars>>

\* proc_audio.stop(): self._write_to_wavefile() (np.concatenate raises
\* ValueError on an empty list), then self.wf.close()
RAudioWrite ==
    /\ rpc = "audio_write"
    /\ IF a_frames = <<>>
         THEN /\ rpc' = "crashed"
              /\ rerr' = "ValueError"
              /\ UNCHANGED <<wav_data, wf_closed>>
         ELSE /\ rpc' = "rgb_close"
              /\ rerr' = rerr
              /\ wav_data' = a_frames
              /\ wf_closed' = TRUE
    /\ UNCHANGED <<recOther, rec_running, rec_thread_attr, startCalls,
                   recThreads, deadThreads, enc, written,
                   files, created, removed, mergeInputs, mergeResult>>
    /\ UNCHANGED <<a_recording, apc, a_frames>>
    /\ UNCHANGED <<videoVars, vid2, dpc, taken>>

\* proc.stdin.close()
RClose(e, next) ==
    /\ enc' = [enc EXCEPT ![e].stdin = "closed"]
    /\ rpc' = next
    /\ UNCHANGED <<recOther, rec_running, rec_thread_attr, startCalls,
                   recThreads, deadThreads, rerr, written,
                   files, created, removed, mergeInputs, mergeResult>>
    /\ UNCHANGED <<videoVars, vid2, dpc, taken, audioVars>>

\* proc.wait(): returns once the process has exited; the status is dropped
RWaitProc(e, next) ==
    /\ enc[e].state = "exited"
    /\ enc' = [enc EXCEPT ![e].waited = TRUE]
    /\ rpc' = next
    /\ UNCHANGED <<recOther, rec_running, rec_thread_attr, startCalls,
                   recThreads, deadThreads, rerr, written,
                   files, created, removed, mergeInputs, mergeResult>>
    /\ UNCHANGED <<videoVars, vid2, dpc, taken, audioVars>>

\* proc_rgb.stdin.close()
RRgbClose ==
    /\ rpc = "rgb_close"
    /\ RClose("rgb", "rgb_wait")

\* proc_rgb.wait()
RRgbWait ==
    /\ rpc = "rgb_wait"
    /\ RWaitProc("rgb", AfterRgbWait)

\* if self.with_radiometry: proc_therm.stdin.close()
RThermClose ==
    /\ rpc = "therm_close"
    /\ RClose("therm", "therm_wait")

\* proc_therm.wait()
RThermWait ==
    /\ rpc = "therm_wait"
    /\ RWaitProc("therm", "merge")

\* in_streams = [...]; out = ffmpeg.output(*in_streams, path + '.mkv', ...);
\* out.run(...): ffmpeg.Error when ffmpeg fails, as it does when an input
\* file is missing
RMerge ==
    /\ rpc = "merge"
    /\ mergeInputs' = InStreams
    /\ \E ok \in BOOLEAN :
         /\ ok => SeqRange(InStreams) \subseteq files
         /\ IF ok
              THEN /\ mergeResult' = "ok"
                   /\ files' = files \cup {"out"}
                   /\ created' = created \cup {"out"}
                   /\ rpc' = "rm_rgb"
                   /\ rerr' = rerr
              ELSE /\ mergeResult' = "failed"
                   /\ UNCHANGED <<files, created>>
                   /\ rpc' = AfterMergeFailure
                   /\ rerr' = "ffmpeg.Error"
    /\ UNCHANGED <<recOther, rec_running, rec_thread_attr, startCalls,
                   recThreads, deadThreads, enc, written,
                   removed>>
    /\ UNCHANGED <<videoVars, vid2, dpc, taken, audioVars>>

\* os.remove(f) inside the try: FileNotFoundError leaves the try block for
\* the warning, then log.info("Recording finished.")
RRemove(f, next) ==
    /\ IF f \in files
         THEN /\ files' = files \ {f}
              /\ removed' = removed \cup {f}
              /\ rpc' = next
         ELSE /\ UNCHANGED <<files, removed>>
              /\ rpc' = "done"
    /\ UNCHANGED <<recOther, rec_running, rec_thread_attr, startCalls,
                   recThreads, deadThreads, rerr, enc, written,
                   created, mergeInputs, mergeResult>>
    /\ UNCHANGED <<videoVars, vid2, dpc, taken, audioVars>>

\* os.remove(self.path + '.rgb.mkv')
RRmRgb ==
    /\ rpc = "rm_rgb"
    /\ RRemove("rgb", AfterRmRgb)

\* if self.with_radiometry: os.remove(self.path + '.therm.mkv')
RRmTherm ==
    /\ rpc = "rm_therm"
    /\ RRemove("therm", AfterRmTherm)

\* if self.with_audio: os.remove(self.path + '.wav')
RRmWav ==
    /\ rpc = "rm_wav"
    /\ RRemove("wav", "done")

RecThreadNext ==
    \/ RWait
    \/ RPeek
    \/ RStartRgb
    \/ RStartTherm
    \/ RStartAudio
    \/ RLoop
    \/ RGet
    \/ RWriteRgb
    \/ RWriteTherm
    \/ RAudioStop
    \/ RAudioJoin
    \/ RAudioWrite
    \/ RRgbClose
    \/ RRgbWait
    \/ RThermClose
    \/ RThermWait
    \/ RMerge
    \/ RRmRgb
    \/ RRmTherm
    \/ RRmWav

(* ========================= the whole program =========================== *)

\* the threads main.py starts, the recorder's threads and processes, and a
\* client calling VideoRecorder.start() / stop(); Video.stop() (VStopFlag,
\* VStopRelease) is called nowhere in main.py and is no step of Next; it is
\* a step of StopNext below

Next ==
    \/ VideoThreadStart
    \/ VOpenSetRecording
    \/ VOpenCap
    \/ VLoop
    \/ VRead
    \/ VDecode
    \/ VPubFull
    \/ VPubGet
    \/ VPubPut
    \/ DWaitRunning
    \/ DTake
    \/ RecStart
    \/ RecStop
    \/ RWait
    \/ RPeek
    \/ RStartRgb
    \/ RStartTherm
    \/ RStartAudio
    \/ RLoop
    \/ RGet
    \/ RWriteRgb
    \/ RWriteTherm
    \/ RAudioStop
    \/ RAudioJoin
    \/ RAudioWrite
    \/ RRgbClose
    \/ RRgbWait
    \/ RThermClose
    \/ RThermWait
    \/ RMerge
    \/ RRmRgb
    \/ RRmTherm
    \/ RRmWav
    \/ ACallback
    \/ ALoopExit
    \/ \E e \in Encoders : EncExit(e)
    \/ \E e \in Encoders : EncCrash(e)

Spec == Init /\ [][Next]_vars

TypeOK ==
    /\ \A q \in Queues : Len(frame_queue[q]) <= QueueCap
    /\ frame_counter \in 0 .. MaxFrames
    /\ rpc \in {"none", "wait", "peek", "start_rgb", "start_therm",
                "start_audio", "loop", "get", "write_rgb", "write_therm",
                "audio_stop", "audio_join", "audio_write", "rgb_close",
                "rgb_wait", "therm_close", "therm_wait", "merge", "rm_rgb",
                "rm_therm", "rm_wav", "done", "crashed"}


\* every thread that can take a step eventually takes one, and an encoder
\* whose input is closed eventually exits; calls by a client (starting the
\* threads, start(), stop()) and failures are not forced to happen
FairSpec ==
    /\ Spec
    /\ WF_vars(VideoThreadNext)
    /\ WF_vars(RecThreadNext)
    /\ WF_vars(AudioNext)
    /\ \A e \in Encoders : WF_vars(EncExit(e))

\* a temporary file is removed by something other than the recorder (the
\* case the except FileNotFoundError clause is written for) after the merge
\* and before the cleanup begins
ExternalRemove(f) ==
    /\ rpc = "rm_rgb"
    /\ f \in files
    /\ files' = files \ {f}
    /\ UNCHANGED <<recOther, rec_running, rec_thread_attr, startCalls,
                   recThreads, deadThreads, rpc, rerr, enc, written,
                   created, removed, mergeInputs, mergeResult>>
    /\ UNCHANGED <<videoVars, vid2, dpc, taken, audioVars>>

\* the program with a temporary file that can go missing before cleanup
EnvNext ==
    \/ Next
    \/ \E f \in TempFiles : ExternalRemove(f)

EnvSpec == Init /\ [][EnvNext]_vars

\* the frame source and the display alone, as main.py runs them
StreamNext ==
    \/ VideoThreadStart
    \/ VOpenSetRecording
    \/ VOpenCap
    \/ VLoop
    \/ VRead
    \/ VDecode
    \/ VPubFull
    \/ VPubGet
    \/ VPubPut
    \/ DWaitRunning
    \/ DTake

StreamSpec == Init /\ [][StreamNext]_vars

\* the thread running Video.open is scheduled
StreamFairSpec == StreamSpec /\ WF_vars(VideoThreadNext)

\* the frame source, the display and a client that calls Video.stop() once,
\* at any moment
StopNext ==
    \/ StreamNext
    \/ VStopFlag
    \/ VStopRelease

StopSpec == Init /\ [][StopNext]_vars

\* main.py starts the thread of Video.open unconditionally, that thread is
\* scheduled, and a caller inside Video.stop() goes on to its second
\* statement; nothing forces stop() to be called
StopFairSpec ==
    /\ StopSpec
    /\ WF_vars(VideoThreadStart)
    /\ WF_vars(VideoThreadNext)
    /\ WF_vars(VStopRelease)

\* two Video objects, each with open() running in a thread of its own, and
\* the display of main.py attached to the first
TwoSourceNext ==
    \/ StreamNext
    \/ Video2ThreadStart
    \/ V2Open
    \/ V2Loop
    \/ V2Read
    \/ V2PubFull
    \/ V2PubGet
    \/ V2PubPut

TwoSourceSpec == Init /\ [][TwoSourceNext]_vars

(* ============================== claims ================================= *)

StrictlyIncreasing(s) == \A i, j \in 1 .. Len(s) : i < j => s[i] < s[j]

\* C1: the frames each consumer takes (the display from frame_queue[0], the
\* recorder's feed loop from frame_queue[1]) have strictly increasing
\* frame_num in the order taken: never reordered, never one frame twice.
C1_TakenInOrder == \A q \in Queues : StrictlyIncreasing(taken[q])

\* both consumers have taken two frames
C1_Witness == Len(taken[GuiQueue]) >= 2 /\ Len(taken[RecQueue]) >= 2

\* C2: the publish step runs to completion for every queue in every
\* interleaving with the consumers: it never aborts (queue.get(False) never
\* raises queue.Empty) and the put never finds the queue full.
C2_PublishCompletes ==
    /\ ~(vpc = "crashed" /\ verr = "Empty")
    /\ (vpc = "pub_put" => ~QFull(frame_queue[qi]))

RecThreadEnded == rpc \in {"done", "crashed"}

\* C3: once start() and then stop() have been called, the recorder thread
\* terminates even when no frame is ever put on its input queue.
C3_StopTerminatesWithoutFrames ==
    (recThreads > 0 /\ ~rec_running) ~> (RecThreadEnded \/ published[RecQueue] > 0)

EncFinished(e) == enc[e].stdin = "closed" /\ enc[e].state = "exited" /\ enc[e].waited

\* C4: when stop() returns (the step that clears rec_running), the recorder
\* thread is no longer feeding, finishing encoders or merging, and every
\* encoder that was started has been finished.
C4_StopReturnsAfterShutdown ==
    [][(rec_running /\ ~rec_running') =>
         /\ RecThreadEnded'
         /\ \A e \in Encoders : enc'[e].state # "none" => EncFinished(e)']_vars

InFeedPhase == rpc \in {"wait", "peek", "start_rgb", "start_therm", "start_audio",
                        "loop", "get", "write_rgb", "write_therm"}
MergeReached == rpc \in {"merge", "rm_rgb", "rm_therm", "rm_wav", "done"} \/ mergeResult # "none"

\* C5: the merge starts only after the feed loop has exited, after
\* AudioRecorder.stop() has completed with the wave file closed (audio
\* enabled), and after the RGB encoder and (radiometry enabled) the thermal
\* encoder have had their input closed and have exited.
C5_MergeAfterShutdown ==
    MergeReached =>
        /\ ~InFeedPhase
        /\ with_audio => (~a_recording /\ apc = "exited" /\ wf_closed)
        /\ EncFinished("rgb")
        /\ with_radiometry => EncFinished("therm")

\* the merge is about to start in a session with audio and radiometry
C5_Witness == rpc = "merge" /\ with_audio /\ with_radiometry

SessionActive == rpc \notin {"none", "done", "crashed"}

\* C6: start() while a session is Recording or Merging is rejected: it
\* starts no further thread and leaves rec_running as it was.
C6_StartRejectedWhileActive ==
    [][SessionActive => (recThreads' = recThreads /\ (rec_running' => rec_running))]_vars

EnabledTemps ==
    {"rgb"} \cup (IF with_radiometry THEN {"therm"} ELSE {})
            \cup (IF with_audio THEN {"wav"} ELSE {})
DisabledTemps == TempFiles \ EnabledTemps

\* C7: when a session ends after a successful merge, the merge took exactly
\* the temporary files of the enabled sub-streams as inputs and none of them
\* exists any more; the temporary files of disabled sub-streams are never
\* created, never merge inputs and never deleted.
C7_MergeInputsAndCleanup ==
    /\ (rpc = "done" /\ mergeResult = "ok") =>
          /\ SeqRange(mergeInputs) = EnabledTemps
          /\ Len(mergeInputs) = Cardinality(EnabledTemps)
          /\ files \cap EnabledTemps = {}
          /\ removed = EnabledTemps
    /\ created \cap DisabledTemps = {}
    /\ removed \cap DisabledTemps = {}
    /\ SeqRange(mergeInputs) \cap DisabledTemps = {}

\* a session with all three sub-streams has finished
C7_Witness == rpc = "done" /\ mergeResult = "ok" /\ with_radiometry /\ with_audio

\* C8: when the merge fails no temporary file is deleted by the recorder;
\* the cleanup is reached only after a successful merge.
C8_FailedMergeKeepsTemps ==
    /\ mergeResult = "failed" => (removed = {} /\ rpc = "crashed")
    /\ rpc \in {"rm_rgb", "rm_therm", "rm_wav"} => mergeResult = "ok"
    /\ removed # {} => mergeResult = "ok"

\* the merge failed although all its input files were there, and they remain
C8_Witness == mergeResult = "failed" /\ SeqRange(mergeInputs) \subseteq files

\* C9: when an encoder process has exited abnormally, the recorder does not
\* go on to merge, delete the temporary files and report the recording as
\* finished.
C9_EncoderFailureStopsSession ==
    (rpc = "done" /\ removed # {}) => \A e \in Encoders : enc[e].code # "err"

\* C10: a malformed or short raw buffer does not end the streaming loop:
\* the cycle is skipped and nothing is raised out of Video.open.
C10_DecodeErrorSkipsCycle == ~(vpc = "crashed" /\ verr = "ValueError")

VideoLoopEnded == vpc \in {"done", "crashed"}

\* C11: once the raw source is at end-of-stream (it has delivered its
\* MaxFrames buffers, every later read fails) the streaming loop terminates
\* without a stop request instead of retrying the read forever.
C11_EndOfStreamEndsLoop ==
    (frame_counter = MaxFrames /\ vpc \in {"loop", "read"}) ~> VideoLoopEnded

\* C12: whenever video_running is true, at least one frame has been put on
\* every consumer queue.
C12_ActiveAfterFirstPublish ==
    video_running => \A q \in Queues : published[q] >= 1

\* C13: after Video.stop() has been called, whatever the thread of
\* Video.open was doing at that moment (not yet started, before its first
\* statement, before the source is opened, inside the loop), the read loop
\* eventually exits: the stop request is never lost.
C13_StopEndsLoop == (vstop # "none") ~> VideoLoopEnded

\* C18: Video.stop() releases the source only after the read loop has
\* exited: the source is never released while the loop thread can still
\* enter a read on it.
C18_ReleaseAfterLoopExit == cap = "released" => VideoLoopEnded

C15_FirstFramePresent ==
    /\ rpc = "peek" => ~QEmpty(frame_queue[RecQueue])
    /\ rerr # "IndexError"

BetweenPublishes == vpc \in {"loop", "read", "decode", "done"}

\* C16: every queue holds at most one frame; a queued frame is the one most
\* recently put on that queue, so a take never returns an older frame than
\* one already published to the queue; and between publish steps every queue
\* is empty or holds the most recently published frame.
C16_QueueHoldsLatest ==
    \A q \in Queues :
        /\ Len(frame_queue[q]) <= 1
        /\ frame_queue[q] # <<>> => Head(frame_queue[q]) = published[q] - 1
        /\ BetweenPublishes =>
              (frame_queue[q] = <<>> \/ frame_queue[q] = <<frame_counter - 1>>)

\* a queue whose first frame was never taken holds the second frame
C16_Witness ==
    \E q \in Queues :
        published[q] = 2 /\ frame_queue[q] = <<1>> /\ taken[q] = <<>> /\ BetweenPublishes

\* C17: after the cleanup of a merged session every temporary file of an
\* enabled sub-stream is absent, also when one of them was already missing
\* when the cleanup began: the missing file does not stop the removal of the
\* others.
C17_CleanupRemovesAll ==
    (rpc = "done" /\ mergeResult = "ok") => files \cap EnabledTemps = {}

AudioStopped == ~a_recording /\ apc = "exited" /\ wf_closed

\* C19: on every path by which the recorder thread ends, every encoder the
\* session started has had its input closed and its exit awaited, and a
\* started AudioRecorder has been stopped; this includes the path where a
\* write to an encoder that has already exited fails.
C19_StartedPartsFinished ==
    RecThreadEnded =>
        /\ \A e \in Encoders : enc[e] # NoEncoder => EncFinished(e)
        /\ apc # "none" => AudioStopped

\* the feed loop is between iterations or has exited by its while condition
FeedLoopBetweenIterations == rpc \in {"loop", "get"}
FeedLoopExited ==
    \/ rpc \in {"audio_stop", "audio_join", "audio_write", "rgb_close",
                "rgb_wait", "therm_close", "therm_wait", "merge", "rm_rgb",
                "rm_therm", "rm_wav", "done"}
    \/ rpc = "crashed" /\ rerr \in {"ValueError", "ffmpeg.Error"}

\* C20: with radiometry enabled, between iterations of the feed loop and
\* after its normal exit the frames written to the RGB encoder are, in
\* order, the frames written to the thermal encoder, and both are the frames
\* the loop took from its queue.
C20_BothEncodersSameFrames ==
    (with_radiometry /\ (FeedLoopBetweenIterations \/ FeedLoopExited)) =>
        /\ written["rgb"] = written["therm"]
        /\ written["rgb"] = taken[RecQueue]

\* the loop was left by a stop request after it had written two frames
C20_Witness ==
    /\ with_radiometry
    /\ FeedLoopExited
    /\ ~rec_running
    /\ Len(written["therm"]) >= 2

\* a frame of the second Video object was taken by a consumer of the first
TakenFromOther ==
    \E q \in Queues : \E i \in 1 .. Len(taken[q]) : FromOther(taken[q][i])

\* a publish step stands at queue.put(frame_obj) with the queue full
PutBlocked ==
    \/ vpc = "pub_put" /\ QFull(frame_queue[qi])
    \/ vid2.pc = "pub_put" /\ QFull(frame_queue[vid2.qi])

\* a publish step raised queue.Empty although no consumer has taken a frame
PublishFailedByProducer ==
    /\ verr = "Empty" \/ vid2.err = "Empty"
    /\ \A q \in Queues : taken[q] = <<>>

\* C21: two Video objects never share consumer queues: a consumer of one
\* never takes a frame the other published, and the publishing of one never
\* blocks the other's publish step or makes it fail.
C21_SourcesShareNoQueue ==
    /\ ~TakenFromOther
    /\ ~PutBlocked
    /\ ~PublishFailedByProducer

====
